---- MODULE Spec2Model ----
(***************************************************************************)
(* Model of grpc-profile. The duration-bound collection engine:             *)
(* Server.NonLookupProfile / Server.runNonLookup / StopNonLookupProfile    *)
(* (src/server.go) and Agent.NonLookupProfile / Agent.runNonLookup         *)
(* (src/unnamed/part_001), together with the host profiling capability     *)
(* (pprof.StartCPUProfile / trace.Start and their stop functions), the     *)
(* request's stream context and the response stream they act on. The       *)
(* profile cache and the variable registry of the server (src/server.go):  *)
(* LookupProfile, DownloadLookupProfile, DownloadNonLookupProfile,         *)
(* ClearProfileCache, initVariables, Set and Reset. The client's Connect    *)
(* and receiveFileChunk (src/client.go, src/unnamed/part_007), and the     *)
(* constructors and option setters NewServer, SetOptions, NewClient and    *)
(* SetDialOptions.                                                         *)
(***************************************************************************)
EXTENDS Integers, FiniteSets, Sequences, TLC

\* Number of collectProfile requests issued in one behaviour.
MaxReq == 2
\* Number of Write calls the profiler makes into the sink of one collection.
MaxBytes == 1
\* Number of explicit stopCollection requests issued in one behaviour.
MaxStops == 1
\* Longest snapshot payload, in bytes, that pprof.Lookup(..).WriteTo produces.
MaxLen == 2
\* Largest rate a Set request carries.
MaxRate == 1
\* Number of unary and download requests (ClearProfileCache, Download*, Set,
\* Reset) and initVariables calls served in one behaviour.
MaxOps == 3
\* Number of lookup profile types requested in one behaviour.
NumLookupTypes == 2

Reqs == 1..MaxReq

\* proto.NonLookupProfile: profileTypeCPU, profileTypeTrace; "Unknown" stands
\* for any enum value outside the switch of NonLookupProfile.
DurTypes == {"CPU", "Trace"}
ReqTypes == DurTypes \cup {"Unknown"}

\* proto.LookupProfile, the keys of lookupStr; "Unknown" stands for any enum
\* value that lookupStr does not hold.
AllLookupTypes == <<"Heap", "Mutex", "Block", "ThreadCreate", "GoRoutine">>
LookupTypes == {AllLookupTypes[i] : i \in 1..NumLookupTypes}
LookupReqTypes == LookupTypes \cup {"Unknown"}

\* proto.ProfileVariable.
Variables == {"MemProfileRate", "MutexProfileFraction", "BlockProfileRate"}
Rates == 0..MaxRate

\* The bytes of a payload, and the payloads a snapshot can produce.
Bytes == {0, 1}
Payloads == UNION {[1..n -> Bytes] : n \in 0..MaxLen}

\* periodType/sampleTypes signature of a parsed profile (opaque to the server).
Shapes == {"s1", "s2"}

NoProfile == [shape |-> "none", size |-> 0]

NoArg == [type |-> "Unknown", dur |-> "bad", keep |-> FALSE, wait |-> FALSE]

NoResp == [type |-> "none", code |-> "none"]

NoReply ==
    [op |-> "none", key |-> "none", code |-> "none", chunks |-> 0, held |-> 0]

VARIABLES
    impl,             \* "server" (package profile) or "agent" (package agent)
    pc,               \* pc[r]: position of the handler of request r
    arg,              \* arg[r]: the request message (type, duration, keep, wait)
    result,           \* result[r]: what the handler returned
    prof,             \* prof[r]: the handler's local p (parsed / merged profile)
    bg,               \* bg[r]: position of the goroutine spawned by runNonLookup
    timer,            \* timer[r]: the deadline timer of timeoutCtx
    started,          \* started[r]: startFunc returned nil for r
    stopCalls,        \* stopCalls[r]: stopFunc invocations made by session r
    ctx,              \* ctx[r]: the caller's side of profileServer.Context()
    written,          \* written[r]: Write calls the profiler made into r's sink
    sent,             \* sent[r]: chunks delivered on r's response stream
    active,           \* active[T]: the host capability for T is collecting
    owner,            \* owner[T]: the request whose startFunc enabled T (0: none)
    profileRunning,   \* Server.profileRunning
    nonLookupProfile, \* Server.nonLookupProfile
    lookupProfile,    \* Server.lookupProfile
    variable,         \* Server.variable
    initializedVars,  \* Server.initializedVars
    initVariable,     \* Server.initVariable
    runtimeRate,      \* runtime.MemProfileRate, mutex fraction, block rate
    nStops,           \* number of StopNonLookupProfile requests served
    stopResp,         \* type and reply of the last StopNonLookupProfile request
    snap,             \* snap[r]: the bytes prof.WriteTo produced for r
    out,              \* out[r]: the bytes sent on r's LookupProfile stream
    kept,             \* kept[T]: payload sizes merged for T since the last clear
    nOps,             \* number of unary / download requests served
    lastReply,        \* the last of them: operation, key, code, chunks sent
    crashed,          \* the process died of an unrecovered panic
    revision,         \* the revision of receiveFileChunk the client is built with
    conn,             \* Client.Connect: how far it got, and the ping reply
    stream,           \* the response stream of the client's streaming call
    writer,           \* the bytes in the destination sink of receiveFileChunk
    err,              \* what receiveFileChunk returned ("pending": in its loop)
    agentRate,        \* the runtime settings the agent's Set acts on
    lastSet,          \* the last Set the agent served: its request and reply
    ctor,             \* the constructor or option setter called, and how far it got
    options,          \* the options its caller handed it
    frames,           \* the frames of SetOptions / SetDialOptions on the stack
    applied           \* serverOptions, or dialOptions, as appended so far

handlerVars == <<pc, arg, result, prof>>
taskVars == <<bg, timer, started, stopCalls>>
streamVars == <<ctx, written, sent>>
capVars == <<active, owner>>
cacheVars == <<nonLookupProfile, lookupProfile>>
registryVars == <<variable, initializedVars, initVariable, runtimeRate>>
stopVars == <<nStops, stopResp>>
lookupVars == <<snap, out>>
unaryVars == <<nOps, lastReply>>
clientVars == <<revision, conn, stream, writer, err>>
agentVars == <<agentRate, lastSet>>
setupVars == <<ctor, options, frames, applied>>
peerVars == <<clientVars, agentVars, setupVars>>
serviceVars == <<lookupVars, unaryVars, kept, crashed, peerVars>>

vars == <<impl, handlerVars, taskVars, streamVars, capVars, profileRunning,
          cacheVars, registryVars, stopVars, serviceVars>>

\* The revisions of receiveFileChunk: src/client.go line 17, src/client.go
\* line 506, and src/unnamed/part_007 line 16.
Revisions == {"client.go:17", "client.go:506", "part_007:16"}
FirstRevision == "client.go:17"

\* proto.ProfileVariable of the agent (src/proto/profile.proto).
AgentVariables == Variables \cup {"CPUProfileRate"}

\* A client not yet connected; no streaming call made; no Set served.
NoConn == [state |-> "new", peer |-> "none", reply |-> "none"]
NoStream == [status |-> "none", data |-> <<>>, sent |-> 0, wire |-> <<>>,
             got |-> 0]
NoSet == [variable |-> "none", rate |-> 0, was |-> 0, value |-> 0]

\* No constructor and no option setter has been called.
NoCtor == [fn |-> "none", at |-> "none", err |-> "none"]

\* A nil map and an empty one read alike; isNil tells them apart.
NilMap == [isNil |-> TRUE, m |-> [t \in DurTypes |-> NoProfile]]
NilLookupMap == [isNil |-> TRUE, m |-> [t \in LookupTypes |-> NoProfile]]

\* Server.initVariable and Server.variable are references to maps of ints.
\* initVariable is nil or its own map; variable is nil, a map of its own, or
\* (ref = "init") the very map initVariable refers to.
NilRates == [v \in Variables |-> 0]
NilInitVariable == [isNil |-> TRUE, m |-> NilRates]
NilVariable == [ref |-> "nil", m |-> NilRates]

\* The runtime's own settings at process start: memory profiling on, mutex
\* and block profiling off.
RuntimeDefault == [v \in Variables |-> IF v = "MemProfileRate" THEN 1 ELSE 0]

\* server = &Server{}: every field has its zero value. The runtime has the
\* settings in rates.
InitWith(rates) ==
    /\ impl \in {"server", "agent"}
    /\ pc = [r \in Reqs |-> "idle"]
    /\ arg = [r \in Reqs |-> NoArg]
    /\ result = [r \in Reqs |-> "none"]
    /\ prof = [r \in Reqs |-> NoProfile]
    /\ bg = [r \in Reqs |-> "none"]
    /\ timer = [r \in Reqs |-> "none"]
    /\ started = [r \in Reqs |-> FALSE]
    /\ stopCalls = [r \in Reqs |-> 0]
    /\ ctx = [r \in Reqs |-> "live"]
    /\ written = [r \in Reqs |-> 0]
    /\ sent = [r \in Reqs |-> 0]
    /\ active = [t \in DurTypes |-> FALSE]
    /\ owner = [t \in DurTypes |-> 0]
    /\ profileRunning = FALSE
    /\ nonLookupProfile = NilMap
    /\ lookupProfile = NilLookupMap
    /\ variable = NilVariable
    /\ initializedVars = FALSE
    /\ initVariable = NilInitVariable
    /\ runtimeRate = rates
    /\ nStops = 0
    /\ stopResp = NoResp
    /\ snap = [r \in Reqs |-> <<>>]
    /\ out = [r \in Reqs |-> <<>>]
    /\ kept = [t \in DurTypes \cup LookupTypes |-> 0]
    /\ nOps = 0
    /\ lastReply = NoReply
    /\ crashed = FALSE
    /\ conn = NoConn
    /\ stream = NoStream
    /\ writer = <<>>
    /\ err = "none"
    /\ lastSet = NoSet
    /\ ctor = NoCtor
    /\ options = <<>>
    /\ frames = <<>>
    /\ applied = <<>>

\* No client and no agent take part.
NoPeer ==
    /\ revision = FirstRevision
    /\ agentRate = [v \in AgentVariables |-> 0]

Init == InitWith(RuntimeDefault) /\ NoPeer

(***************************************************************************)
(* The host profiling capability (pprof.StartCPUProfile/StopCPUProfile,    *)
(* trace.Start/Stop): one singleton per duration type.                     *)
(***************************************************************************)

\* Mutant: the error of startFunc is not looked at.
StartErrorUnchecked(t) == FALSE

\* startFunc reports an error when a collection of the type is already active.
CapBusy(t) == active[t]

\* startFunc(writer) returning nil: the capability now writes into r's sink.
CapStarted(t, r) ==
    /\ active' = [active EXCEPT ![t] = TRUE]
    /\ owner' = [owner EXCEPT ![t] = r]

\* stopFunc(): ends whatever collection of the type is active; a no-op otherwise.
CapStopped(t) ==
    /\ active' = [active EXCEPT ![t] = FALSE]
    /\ owner' = [owner EXCEPT ![t] = 0]

(***************************************************************************)
(* The request's stream and its context.                                   *)
(***************************************************************************)

\* profileServer.Context(): done once the caller cancels or disconnects, and
\* (gRPC) once the handler of the stream has returned.
StreamCtxDone(r) == ctx[r] = "cancelled" \/ pc[r] = "done"

\* Mutant: the goroutine is handed the stream's context, not timeoutCtx.
ParentCtxDone(r) == ctx[r] = "cancelled" \/ pc[r] = "done"

\* timeoutCtx = context.WithTimeout(ctx, duration - elapsed): done when the
\* deadline passes or the parent context is done.
TimeoutCtxDone(r) == timer[r] = "fired" \/ StreamCtxDone(r)

\* Send can deliver a chunk only while the stream is open.
StreamOpen(r) == pc[r] # "done" /\ ctx[r] = "live"

\* The sink handed to startFunc is the bytes.Buffer of the keep branch.
BufferSink(r) == impl = "server" /\ arg[r].keep

\* Mutant: the goroutine calls stopFunc twice (once more, deferred).
AfterStopFuncTwice(n) == n + 2

\* The number of stop invocations of a session after one more stopFunc().
AfterStopFunc(n) == n + 1

\* Mutant: the handler does not wait for the goroutine.
WaitSkipped(r) == TRUE

\* wg.Wait() returns once the goroutine has run its deferred wg.Done().
WaitReleased(r) == bg[r] = "done"

(***************************************************************************)
(* Handlers.                                                               *)
(***************************************************************************)

\* The request messages. A handler that rejects the type or the duration
\* returns before it reads keep and waitForCompletion, so those requests are
\* listed with both unset; the agent's handler reads neither (it always
\* waits and never keeps).
Requests ==
    IF impl = "server"
    THEN [type : DurTypes, dur : {"ok"}, keep : BOOLEAN, wait : BOOLEAN]
         \cup [type : ReqTypes, dur : {"bad"}, keep : {FALSE}, wait : {FALSE}]
    ELSE [type : DurTypes, dur : {"ok"}, keep : {FALSE}, wait : {TRUE}]
         \cup [type : ReqTypes, dur : {"bad"}, keep : {FALSE}, wait : {TRUE}]

\* Mutant: the type switches have no default case.
UnknownNever(t) == FALSE

\* The default case of the type switch of NonLookupProfile and of
\* StopNonLookupProfile: a type that is neither CPU nor Trace.
UnknownType(t) == t \notin DurTypes

\* NonLookupProfile up to the call of startFunc: the type switch, the
\* duration conversion and (server) profileRunning = true.
Begin(r) ==
    /\ pc[r] = "idle"
    /\ \A q \in Reqs : q < r => pc[q] # "idle"
    /\ \E a \in Requests :
        /\ arg' = [arg EXCEPT ![r] = a]
        /\ IF UnknownType(a.type)
           THEN /\ pc' = [pc EXCEPT ![r] = "done"]
                /\ result' = [result EXCEPT ![r] = "NotFound"]
                /\ UNCHANGED profileRunning
           ELSE IF a.dur = "bad"
           THEN /\ pc' = [pc EXCEPT ![r] = "done"]
                /\ result' = [result EXCEPT ![r] = "BadDuration"]
                /\ UNCHANGED profileRunning
           ELSE /\ pc' = [pc EXCEPT ![r] = "run"]
                /\ UNCHANGED result
                /\ profileRunning' = IF impl = "server" THEN TRUE ELSE profileRunning
    /\ UNCHANGED <<impl, prof, taskVars, streamVars, capVars, cacheVars,
                   registryVars, serviceVars, stopVars>>

\* Mutant: the start error is swallowed and the handler goes on to stream.
StartErrorSwallowed(r) ==
    /\ pc' = [pc EXCEPT ![r] = "ran"]
    /\ UNCHANGED <<result, taskVars, capVars>>

\* runNonLookup, err != nil: return err. Nothing was started or spawned.
StartRejected(r) ==
    /\ pc' = [pc EXCEPT ![r] = "done"]
    /\ result' = [result EXCEPT ![r] = "StartFailed"]
    /\ UNCHANGED <<taskVars, capVars>>

\* runNonLookup, err == nil: arm timeoutCtx; the server spawns the goroutine
\* that will stop and waits for it when asked to, the agent waits itself.
StartAccepted(r) ==
    /\ CapStarted(arg[r].type, r)
    /\ started' = [started EXCEPT ![r] = TRUE]
    /\ timer' = [timer EXCEPT ![r] = "armed"]
    /\ UNCHANGED <<result, stopCalls>>
    /\ IF impl = "server"
       THEN /\ bg' = [bg EXCEPT ![r] = "waiting"]
            /\ pc' = [pc EXCEPT ![r] = IF arg[r].wait THEN "wgWait" ELSE "ran"]
       ELSE /\ pc' = [pc EXCEPT ![r] = "ctxWait"]
            /\ UNCHANGED bg

\* runNonLookup: err := startFunc(writer).
Start(r) ==
    /\ pc[r] = "run"
    /\ IF CapBusy(arg[r].type) THEN StartRejected(r) ELSE StartAccepted(r)
    /\ UNCHANGED <<impl, arg, prof, streamVars, profileRunning, cacheVars,
                   registryVars, serviceVars, stopVars>>

\* The deadline of timeoutCtx passes.
TimerFire(r) ==
    /\ timer[r] = "armed"
    /\ timer' = [timer EXCEPT ![r] = "fired"]
    /\ UNCHANGED <<impl, handlerVars, bg, started, stopCalls, streamVars,
                   capVars, profileRunning, cacheVars, registryVars,
                   serviceVars, stopVars>>

\* The caller cancels its context or disconnects while the handler runs.
CallerCancel(r) ==
    /\ pc[r] \notin {"idle", "done"}
    /\ ctx[r] = "live"
    /\ ctx' = [ctx EXCEPT ![r] = "cancelled"]
    /\ UNCHANGED <<impl, handlerVars, taskVars, written, sent, capVars,
                   profileRunning, cacheVars, registryVars, serviceVars,
                   stopVars>>

\* Server.runNonLookup's goroutine: <-ctx.Done(); stopFunc().
BgStop(r) ==
    /\ bg[r] = "waiting"
    /\ TimeoutCtxDone(r)
    /\ CapStopped(arg[r].type)
    /\ stopCalls' = [stopCalls EXCEPT ![r] = AfterStopFunc(stopCalls[r])]
    /\ bg' = [bg EXCEPT ![r] = "stopped"]
    /\ UNCHANGED <<impl, handlerVars, timer, started, streamVars,
                   profileRunning, cacheVars, registryVars, serviceVars,
                   stopVars>>

\* ... cancelFunc(); server.profileRunning = false; wg.Done().
BgFinish(r) ==
    /\ bg[r] = "stopped"
    /\ bg' = [bg EXCEPT ![r] = "done"]
    /\ timer' = [timer EXCEPT ![r] = "released"]
    /\ profileRunning' = FALSE
    /\ UNCHANGED <<impl, handlerVars, started, stopCalls, streamVars, capVars,
                   cacheVars, registryVars, serviceVars, stopVars>>

\* Server.runNonLookup: if waitForCompletion { wg.Wait() }; return nil.
WgWait(r) ==
    /\ pc[r] = "wgWait"
    /\ WaitReleased(r)
    /\ pc' = [pc EXCEPT ![r] = "ran"]
    /\ UNCHANGED <<impl, arg, result, prof, taskVars, streamVars, capVars,
                   profileRunning, cacheVars, registryVars, serviceVars,
                   stopVars>>

\* Agent.runNonLookup: <-timeoutCtx.Done(); stopFunc(); return nil, with the
\* deferred cancel().
AgentStop(r) ==
    /\ pc[r] = "ctxWait"
    /\ TimeoutCtxDone(r)
    /\ CapStopped(arg[r].type)
    /\ stopCalls' = [stopCalls EXCEPT ![r] = AfterStopFunc(stopCalls[r])]
    /\ timer' = [timer EXCEPT ![r] = "released"]
    /\ pc' = [pc EXCEPT ![r] = "done"]
    /\ result' = [result EXCEPT ![r] = "OK"]
    /\ UNCHANGED <<impl, arg, prof, bg, started, streamVars, profileRunning,
                   cacheVars, registryVars, serviceVars, stopVars>>

\* The profiler writes one unit of data into the sink it was started with.
\* grpcStreamWriter.Write sends it as a chunk and reports a failed Send to
\* the profiler, which has nowhere to pass the error on to; a bytes.Buffer
\* never fails.
CapWrite(t) ==
    /\ active[t]
    /\ owner[t] \in Reqs
    /\ LET r == owner[t] IN
        /\ written[r] < MaxBytes
        /\ written' = [written EXCEPT ![r] = written[r] + 1]
        /\ IF BufferSink(r)
           THEN UNCHANGED sent
           ELSE \E ok \in BOOLEAN :
                    /\ ok => StreamOpen(r)
                    /\ sent' = [sent EXCEPT ![r] = IF ok THEN sent[r] + 1 ELSE sent[r]]
    /\ UNCHANGED <<impl, handlerVars, taskVars, ctx, capVars, profileRunning,
                   cacheVars, registryVars, serviceVars, stopVars>>

\* NonLookupProfile, keep unset: runNonLookup returned nil; return nil.
Return(r) ==
    /\ pc[r] = "ran"
    /\ ~arg[r].keep
    /\ pc' = [pc EXCEPT ![r] = "done"]
    /\ result' = [result EXCEPT ![r] = "OK"]
    /\ UNCHANGED <<impl, arg, prof, taskVars, streamVars, capVars,
                   profileRunning, cacheVars, registryVars, serviceVars,
                   stopVars>>

\* Mutant: the cache entry is assigned before the payload is streamed.
KeepSendAfterStore(r) ==
    /\ pc[r] = "ran"
    /\ arg[r].keep
    /\ LET n == written[r] IN
       \E k \in 0..n :
        /\ k > 0 => StreamOpen(r)
        /\ sent' = [sent EXCEPT ![r] = k]
        /\ nonLookupProfile' =
               [isNil |-> FALSE,
                m |-> [nonLookupProfile.m EXCEPT
                          ![arg[r].type] = [shape |-> "s1", size |-> n]]]
        /\ pc' = [pc EXCEPT ![r] = "done"]
        /\ result' = [result EXCEPT ![r] = IF k < n THEN "SendFailed" ELSE "OK"]
    /\ UNCHANGED <<impl, arg, prof, taskVars, ctx, written, capVars,
                   profileRunning, lookupProfile, registryVars, serviceVars,
                   stopVars>>

\* NonLookupProfile, keep set: writer.Write(buf.Bytes()) then
\* profile.Parse(&buf). Each Send may fail; Parse rejects empty input and may
\* reject any other.
KeepSend(r) ==
    /\ pc[r] = "ran"
    /\ arg[r].keep
    /\ LET n == written[r] IN
       \E k \in 0..n, parsed \in {NoProfile} \cup [shape : Shapes, size : {n}] :
        /\ k > 0 => StreamOpen(r)
        /\ sent' = [sent EXCEPT ![r] = k]
        /\ IF k < n
           THEN /\ parsed = NoProfile
                /\ pc' = [pc EXCEPT ![r] = "done"]
                /\ result' = [result EXCEPT ![r] = "SendFailed"]
                /\ UNCHANGED prof
           ELSE IF parsed = NoProfile
           THEN /\ pc' = [pc EXCEPT ![r] = "done"]
                /\ result' = [result EXCEPT ![r] = "ParseFailed"]
                /\ UNCHANGED prof
           ELSE /\ n > 0
                /\ pc' = [pc EXCEPT ![r] = "merge"]
                /\ prof' = [prof EXCEPT ![r] = parsed]
                /\ UNCHANGED result
    /\ UNCHANGED <<impl, arg, taskVars, ctx, written, capVars, profileRunning,
                   cacheVars, registryVars, serviceVars, stopVars>>

\* profile.Merge of the cached profile and the new one: an error when their
\* signatures differ, otherwise the samples of both.
Compatible(a, b) == a.shape = b.shape

\* Mutant: the new profile replaces the cached one.
MergeKeepsNew(a, b) == b

\* profile.Merge of two compatible profiles.
Merge(a, b) == [shape |-> a.shape, size |-> a.size + b.size]

\* NonLookupProfile, keep set: make the map when nil; merge with the cached
\* entry when there is one, returning the merge error. kept records the size
\* of the payload that goes on to be stored.
KeepMerge(r) ==
    /\ pc[r] = "merge"
    /\ LET t == arg[r].type
           cached == nonLookupProfile.m[t] IN
        /\ nonLookupProfile' = [nonLookupProfile EXCEPT !.isNil = FALSE]
        /\ IF cached = NoProfile
           THEN /\ pc' = [pc EXCEPT ![r] = "store"]
                /\ kept' = [kept EXCEPT ![t] = @ + prof[r].size]
                /\ UNCHANGED <<prof, result>>
           ELSE IF Compatible(cached, prof[r])
           THEN /\ pc' = [pc EXCEPT ![r] = "store"]
                /\ prof' = [prof EXCEPT ![r] = Merge(cached, prof[r])]
                /\ kept' = [kept EXCEPT ![t] = @ + prof[r].size]
                /\ UNCHANGED result
           ELSE /\ pc' = [pc EXCEPT ![r] = "done"]
                /\ result' = [result EXCEPT ![r] = "MergeFailed"]
                /\ prof' = [prof EXCEPT ![r] = NoProfile]
                /\ UNCHANGED kept
    /\ UNCHANGED <<impl, arg, taskVars, streamVars, capVars, profileRunning,
                   lookupProfile, registryVars, lookupVars, unaryVars,
                   crashed, stopVars, peerVars>>

\* NonLookupProfile, keep set: server.nonLookupProfile[type] = p; return nil.
\* An assignment to an entry of a nil map panics, and nothing recovers it.
KeepStore(r) ==
    /\ pc[r] = "store"
    /\ IF nonLookupProfile.isNil
       THEN /\ crashed' = TRUE
            /\ UNCHANGED <<nonLookupProfile, pc, result, prof>>
       ELSE /\ nonLookupProfile' =
                   [nonLookupProfile EXCEPT !.m[arg[r].type] = prof[r]]
            /\ pc' = [pc EXCEPT ![r] = "done"]
            /\ result' = [result EXCEPT ![r] = "OK"]
            /\ prof' = [prof EXCEPT ![r] = NoProfile]
            /\ UNCHANGED crashed
    /\ UNCHANGED <<impl, arg, taskVars, streamVars, capVars, profileRunning,
                   lookupProfile, registryVars, lookupVars, unaryVars, kept,
                   stopVars, peerVars>>

\* Mutant: a stop with nothing to stop is an error, and clears the flag.
StopStrict(t) ==
    /\ nStops < MaxStops
    /\ nStops' = nStops + 1
    /\ IF t \in DurTypes /\ active[t]
       THEN /\ CapStopped(t)
            /\ stopResp' = [type |-> t, code |-> "OK"]
            /\ UNCHANGED profileRunning
       ELSE /\ stopResp' = [type |-> t, code |-> "NotFound"]
            /\ profileRunning' = FALSE
            /\ UNCHANGED capVars
    /\ UNCHANGED <<impl, handlerVars, taskVars, streamVars, cacheVars,
                   registryVars, serviceVars>>

\* StopNonLookupProfile: pprof.StopCPUProfile() / trace.Stop() for a known
\* type, NotFound otherwise.
StopNonLookupProfile(t) ==
    /\ nStops < MaxStops
    /\ nStops' = nStops + 1
    /\ IF ~UnknownType(t)
       THEN /\ CapStopped(t)
            /\ stopResp' = [type |-> t, code |-> "OK"]
       ELSE /\ stopResp' = [type |-> t, code |-> "NotFound"]
            /\ UNCHANGED capVars
    /\ UNCHANGED <<impl, handlerVars, taskVars, streamVars, profileRunning,
                   cacheVars, registryVars, serviceVars>>

Next ==
    \/ \E r \in Reqs : Begin(r)
    \/ \E r \in Reqs : Start(r)
    \/ \E r \in Reqs : TimerFire(r)
    \/ \E r \in Reqs : CallerCancel(r)
    \/ \E r \in Reqs : BgStop(r)
    \/ \E r \in Reqs : BgFinish(r)
    \/ \E r \in Reqs : WgWait(r)
    \/ \E r \in Reqs : AgentStop(r)
    \/ \E t \in DurTypes : CapWrite(t)
    \/ \E r \in Reqs : Return(r)
    \/ \E r \in Reqs : KeepSend(r)
    \/ \E r \in Reqs : KeepMerge(r)
    \/ \E r \in Reqs : KeepStore(r)
    \/ \E t \in ReqTypes : StopNonLookupProfile(t)

Spec == Init /\ [][Next]_vars

\* The timer runs and the Go scheduler runs every goroutine that can take a
\* step: the deadline passes, and a goroutine or handler past <-ctx.Done()
\* goes on to stop and finish. Nothing obliges a caller to cancel or to
\* issue further requests.
Fairness ==
    \A r \in Reqs :
        /\ WF_vars(TimerFire(r))
        /\ WF_vars(BgStop(r))
        /\ WF_vars(BgFinish(r))
        /\ WF_vars(AgentStop(r))

\* The sessions whose sink is the response stream (keep unset): the goroutine,
\* the timer and the wait of runNonLookup are the same for a buffer sink,
\* and what the keep branch does with the buffer afterwards takes no part in
\* stopping the collection.
NextFair ==
    \/ \E r \in Reqs : Begin(r) /\ ~arg'[r].keep
    \/ \E r \in Reqs : Start(r)
    \/ \E r \in Reqs : TimerFire(r)
    \/ \E r \in Reqs : CallerCancel(r)
    \/ \E r \in Reqs : BgStop(r)
    \/ \E r \in Reqs : BgFinish(r)
    \/ \E r \in Reqs : WgWait(r)
    \/ \E r \in Reqs : AgentStop(r)
    \/ \E t \in DurTypes : CapWrite(t)
    \/ \E r \in Reqs : Return(r)
    \/ \E t \in ReqTypes : StopNonLookupProfile(t)

FairSpec == Init /\ [][NextFair]_vars /\ Fairness

(***************************************************************************)
(* LookupProfile: a snapshot of a lookup profile, streamed and, with keep, *)
(* merged into Server.lookupProfile.                                       *)
(***************************************************************************)

\* proto.LookupProfileInputType: ProfileType and Keep.
LookupRequests ==
    [type : LookupReqTypes, dur : {"ok"}, keep : BOOLEAN, wait : {FALSE}]

\* grpcStreamWriter.Write: one Send per byte, in order, up to the first error;
\* Streamed(b, k) is what the caller holds after k Sends succeeded.
Streamed(b, k) == SubSeq(b, 1, k)

\* profile.Parse: rejects empty input; the signature of the profile is read
\* from the bytes, and its sample payload grows with them.
ParseBytes(b) ==
    IF b = <<>>
    THEN NoProfile
    ELSE [shape |-> IF b[1] = 0 THEN "s1" ELSE "s2", size |-> Len(b)]

\* Mutant: with keep the parsed profile is written back out, and loses its
\* first byte on the way.
Reencoded(b, k) == SubSeq(b, 2, k)

\* LookupProfile, keep set: prof.WriteTo(&buf, 0), then
\* writer.Write(buf.Bytes()).
KeepStreamed(b, k) == Streamed(b, k)

\* Mutant: pprof.Lookup is never nil.
LookupNeverNil(t) == FALSE

\* prof == nil: pprof.Lookup(lookupStr[t]) is nil for a name no profile is
\* registered under, which is the empty name lookupStr gives for a value
\* outside its keys.
NoSuchProfile(t) == t \notin LookupTypes

\* LookupProfile up to the cache update: pprof.Lookup (nil for a name that
\* lookupStr does not hold), prof.WriteTo, the Sends, and with keep
\* profile.Parse.
LookupProfile(r) ==
    /\ pc[r] = "idle"
    /\ \A q \in Reqs : q < r => pc[q] # "idle"
    /\ \E a \in LookupRequests, b \in Payloads, k \in 0..MaxLen :
        /\ k <= Len(b)
        /\ arg' = [arg EXCEPT ![r] = a]
        /\ IF NoSuchProfile(a.type)
           THEN /\ b = <<>>
                /\ pc' = [pc EXCEPT ![r] = "done"]
                /\ result' = [result EXCEPT ![r] = "OK"]
                /\ UNCHANGED <<prof, lookupVars>>
           ELSE /\ snap' = [snap EXCEPT ![r] = b]
                /\ out' = [out EXCEPT ![r] = IF a.keep
                                             THEN KeepStreamed(b, k)
                                             ELSE Streamed(b, k)]
                /\ IF k < Len(b)
                   THEN /\ pc' = [pc EXCEPT ![r] = "done"]
                        /\ result' = [result EXCEPT ![r] = "SendFailed"]
                        /\ UNCHANGED prof
                   ELSE IF ~a.keep
                   THEN /\ pc' = [pc EXCEPT ![r] = "done"]
                        /\ result' = [result EXCEPT ![r] = "OK"]
                        /\ UNCHANGED prof
                   ELSE IF ParseBytes(b) = NoProfile
                   THEN /\ pc' = [pc EXCEPT ![r] = "done"]
                        /\ result' = [result EXCEPT ![r] = "ParseFailed"]
                        /\ UNCHANGED prof
                   ELSE /\ pc' = [pc EXCEPT ![r] = "lmerge"]
                        /\ prof' = [prof EXCEPT ![r] = ParseBytes(b)]
                        /\ UNCHANGED result
    /\ UNCHANGED <<impl, taskVars, streamVars, capVars, profileRunning,
                   cacheVars, registryVars, stopVars, unaryVars, kept,
                   crashed, peerVars>>

\* LookupProfile, keep set: make the map when nil; merge with the cached entry
\* when there is one, returning the merge error.
LookupMerge(r) ==
    /\ pc[r] = "lmerge"
    /\ LET t == arg[r].type
           cached == lookupProfile.m[t] IN
        /\ lookupProfile' = [lookupProfile EXCEPT !.isNil = FALSE]
        /\ IF cached = NoProfile
           THEN /\ pc' = [pc EXCEPT ![r] = "lstore"]
                /\ kept' = [kept EXCEPT ![t] = @ + prof[r].size]
                /\ UNCHANGED <<prof, result>>
           ELSE IF Compatible(cached, prof[r])
           THEN /\ pc' = [pc EXCEPT ![r] = "lstore"]
                /\ prof' = [prof EXCEPT ![r] = Merge(cached, prof[r])]
                /\ kept' = [kept EXCEPT ![t] = @ + prof[r].size]
                /\ UNCHANGED result
           ELSE /\ pc' = [pc EXCEPT ![r] = "done"]
                /\ result' = [result EXCEPT ![r] = "MergeFailed"]
                /\ prof' = [prof EXCEPT ![r] = NoProfile]
                /\ UNCHANGED kept
    /\ UNCHANGED <<impl, arg, taskVars, streamVars, capVars, profileRunning,
                   nonLookupProfile, registryVars, stopVars, lookupVars,
                   unaryVars, crashed, peerVars>>

\* Mutant: the profile is stored under every lookup type.
LookupStoreAll(r) ==
    /\ pc[r] = "lstore"
    /\ lookupProfile' =
           [lookupProfile EXCEPT !.m = [t \in LookupTypes |-> prof[r]]]
    /\ pc' = [pc EXCEPT ![r] = "done"]
    /\ result' = [result EXCEPT ![r] = "OK"]
    /\ prof' = [prof EXCEPT ![r] = NoProfile]
    /\ UNCHANGED <<impl, arg, taskVars, streamVars, capVars, profileRunning,
                   nonLookupProfile, registryVars, stopVars, lookupVars,
                   unaryVars, kept, crashed, peerVars>>

\* LookupProfile, keep set: server.lookupProfile[type] = p; return nil. An
\* assignment to an entry of a nil map panics, and nothing recovers it.
LookupStore(r) ==
    /\ pc[r] = "lstore"
    /\ IF lookupProfile.isNil
       THEN /\ crashed' = TRUE
            /\ UNCHANGED <<lookupProfile, pc, result, prof>>
       ELSE /\ lookupProfile' =
                   [lookupProfile EXCEPT !.m[arg[r].type] = prof[r]]
            /\ pc' = [pc EXCEPT ![r] = "done"]
            /\ result' = [result EXCEPT ![r] = "OK"]
            /\ prof' = [prof EXCEPT ![r] = NoProfile]
            /\ UNCHANGED crashed
    /\ UNCHANGED <<impl, arg, taskVars, streamVars, capVars, profileRunning,
                   nonLookupProfile, registryVars, stopVars, lookupVars,
                   unaryVars, kept, peerVars>>

(***************************************************************************)
(* The unary and download requests on the cache.                           *)
(***************************************************************************)

\* held: the serialized length of the entry a Download handler found in the
\* map for its key when it ran (0: none).
Reply(op, key, code, chunks) ==
    [op |-> op, key |-> key, code |-> code, chunks |-> chunks, held |-> 0]

\* Mutant: only the lookup map is dropped.
ClearLookupOnly ==
    /\ nOps < MaxOps
    /\ nOps' = nOps + 1
    /\ lookupProfile' = NilLookupMap
    /\ kept' = [t \in DOMAIN kept |-> IF t \in DurTypes THEN kept[t] ELSE 0]
    /\ lastReply' = Reply("clear", "none", "OK", 0)
    /\ UNCHANGED <<impl, handlerVars, taskVars, streamVars, capVars,
                   profileRunning, nonLookupProfile, registryVars, stopVars,
                   lookupVars, crashed, peerVars>>

\* ClearProfileCache: both maps become nil; the reply is empty and OK.
ClearProfileCache ==
    /\ nOps < MaxOps
    /\ nOps' = nOps + 1
    /\ lookupProfile' = NilLookupMap
    /\ nonLookupProfile' = NilMap
    /\ kept' = [t \in DOMAIN kept |-> 0]
    /\ lastReply' = Reply("clear", "none", "OK", 0)
    /\ UNCHANGED <<impl, handlerVars, taskVars, streamVars, capVars,
                   profileRunning, registryVars, stopVars, lookupVars,
                   crashed, peerVars>>

\* Mutant: the handler goes on to prof.Write whatever ok is.
FoundAlways(cached) == TRUE

\* Download*: "var ok bool" starts false; the first test can only set it to
\* false, and the map is consulted only when ok is already true.
Found(cached) ==
    LET ok0 == FALSE
        ok1 == IF cached = NoProfile THEN FALSE ELSE ok0
        ok2 == IF ok1 THEN cached # NoProfile ELSE ok1
    IN  ok2

\* prof.Write(&writer): the serialized profile, one chunk per byte.
SerializedLen(p) == p.size

\* The tail of both Download handlers: NotFound, or prof.Write(&writer) with
\* the Sends that succeed before the first error.
Download(op, t, cached) ==
    /\ nOps < MaxOps
    /\ nOps' = nOps + 1
    /\ \E k \in 0..SerializedLen(cached) :
        /\ ~Found(cached) => k = 0
        /\ lastReply' =
               [Reply(op, t,
                      IF ~Found(cached) THEN "NotFound"
                      ELSE IF k < SerializedLen(cached) THEN "SendFailed"
                      ELSE "OK", k)
                EXCEPT !.held = SerializedLen(cached)]
    /\ UNCHANGED <<impl, handlerVars, taskVars, streamVars, capVars,
                   profileRunning, cacheVars, registryVars, stopVars,
                   lookupVars, kept, crashed, peerVars>>

\* Reading a map, nil or not, at a key it does not hold gives nil.
DownloadLookupProfile(t) ==
    Download("downloadLookup", t,
             IF t \in LookupTypes THEN lookupProfile.m[t] ELSE NoProfile)

DownloadNonLookupProfile(t) ==
    Download("downloadNonLookup", t,
             IF t \in DurTypes THEN nonLookupProfile.m[t] ELSE NoProfile)

(***************************************************************************)
(* The variable registry: initVariables, Set and Reset.                    *)
(***************************************************************************)

\* The map Server.variable refers to.
VarMap == IF variable.ref = "init" THEN initVariable.m ELSE variable.m

\* server.variable[v] = x: a write through the reference. It lands in
\* initVariable's map when the two fields share one map, and panics when
\* variable is nil.
WriteVariable(v, x) ==
    IF variable.ref = "nil"
    THEN /\ crashed' = TRUE
         /\ UNCHANGED <<variable, initVariable, runtimeRate>>
    ELSE /\ IF variable.ref = "init"
            THEN /\ initVariable' = [initVariable EXCEPT !.m[v] = x]
                 /\ UNCHANGED variable
            ELSE /\ variable' = [variable EXCEPT !.m[v] = x]
                 /\ UNCHANGED initVariable
         /\ runtimeRate' = [runtimeRate EXCEPT ![v] = x]
         /\ UNCHANGED crashed

\* Mutant: the handlers do not look at initializedVars.
GuardSkipped == FALSE

\* The guard of Set and Reset: !server.initializedVars.
NotInitialized == ~initializedVars

\* initVariables: an error when already initialized. Otherwise, with
\* initVariable nil, a fresh map is given to variable (not to initVariable),
\* and the first write to initVariable panics. With initVariable a map, the
\* runtime's settings are captured in it, variable is made to refer to that
\* same map, and initializedVars is set.
InitVariables ==
    /\ nOps < MaxOps
    /\ nOps' = nOps + 1
    /\ IF initializedVars
       THEN /\ lastReply' = Reply("init", "none", "AlreadyInitialized", 0)
            /\ UNCHANGED <<registryVars, crashed>>
       ELSE IF initVariable.isNil
       THEN /\ variable' = [ref |-> "own", m |-> NilRates]
            /\ crashed' = TRUE
            /\ lastReply' = Reply("init", "none", "Panic", 0)
            /\ UNCHANGED <<initVariable, initializedVars, runtimeRate>>
       ELSE /\ initVariable' =
                [initVariable EXCEPT !.m =
                    [v \in Variables |->
                        IF v = "BlockProfileRate" THEN 0 ELSE runtimeRate[v]]]
            /\ variable' = [ref |-> "init", m |-> NilRates]
            /\ initializedVars' = TRUE
            /\ lastReply' = Reply("init", "none", "OK", 0)
            /\ UNCHANGED <<runtimeRate, crashed>>
    /\ UNCHANGED <<impl, handlerVars, taskVars, streamVars, capVars,
                   profileRunning, cacheVars, stopVars, lookupVars, kept,
                   peerVars>>

\* Set: FailedPrecondition before initialization; otherwise the rate is
\* written to variable and to the runtime parameter.
Set(v, rate) ==
    /\ nOps < MaxOps
    /\ nOps' = nOps + 1
    /\ IF NotInitialized
       THEN /\ lastReply' = Reply("set", v, "FailedPrecondition", 0)
            /\ UNCHANGED <<registryVars, crashed>>
       ELSE /\ WriteVariable(v, rate)
            /\ lastReply' = Reply("set", v, "OK", 0)
            /\ UNCHANGED initializedVars
    /\ UNCHANGED <<impl, handlerVars, taskVars, streamVars, capVars,
                   profileRunning, cacheVars, stopVars, lookupVars, kept,
                   peerVars>>

\* Reset: FailedPrecondition before initialization; otherwise
\* initVariable[v] is written to variable and to the runtime parameter.
Reset(v) ==
    /\ nOps < MaxOps
    /\ nOps' = nOps + 1
    /\ IF NotInitialized
       THEN /\ lastReply' = Reply("reset", v, "FailedPrecondition", 0)
            /\ UNCHANGED <<registryVars, crashed>>
       ELSE /\ WriteVariable(v, initVariable.m[v])
            /\ lastReply' = Reply("reset", v, "OK", 0)
            /\ UNCHANGED initializedVars
    /\ UNCHANGED <<impl, handlerVars, taskVars, streamVars, capVars,
                   profileRunning, cacheVars, stopVars, lookupVars, kept,
                   peerVars>>

(***************************************************************************)
(* The server with its cache and registry, driven by a caller that issues  *)
(* one streaming collection at a time; the unary and download requests,    *)
(* and the goroutines of earlier collections, run alongside.               *)
(***************************************************************************)

Alive == ~crashed

\* No streaming handler is between its call and its return.
HandlerIdle == \A q \in Reqs : pc[q] \in {"idle", "done"}

\* The collectProfile requests of this caller: valid, kept, and waited for.
KeepCollection(a) == a.dur = "ok" /\ a.keep /\ a.wait

InitCache == Init /\ impl = "server"

NextCache ==
    /\ Alive
    /\ \/ \E r \in Reqs : HandlerIdle /\ Begin(r) /\ KeepCollection(arg'[r])
       \/ \E r \in Reqs : HandlerIdle /\ LookupProfile(r)
       \/ \E r \in Reqs : Start(r)
       \/ \E r \in Reqs : TimerFire(r)
       \/ \E r \in Reqs : BgStop(r)
       \/ \E r \in Reqs : BgFinish(r)
       \/ \E r \in Reqs : WgWait(r)
       \/ \E t \in DurTypes : CapWrite(t)
       \/ \E r \in Reqs : KeepSend(r)
       \/ \E r \in Reqs : KeepMerge(r)
       \/ \E r \in Reqs : KeepStore(r)
       \/ \E r \in Reqs : LookupMerge(r)
       \/ \E r \in Reqs : LookupStore(r)
       \/ ClearProfileCache
       \/ \E t \in LookupReqTypes : DownloadLookupProfile(t)
       \/ \E t \in ReqTypes : DownloadNonLookupProfile(t)

CacheSpec == InitCache /\ [][NextCache]_vars

\* The registry alone, on a host whose runtime settings at start are any.
InitRegistry ==
    /\ \E rates \in [Variables -> Rates] : InitWith(rates)
    /\ impl = "server"
    /\ NoPeer

NextRegistry ==
    /\ Alive
    /\ \/ InitVariables
       \/ \E v \in Variables, rate \in Rates : Set(v, rate)
       \/ \E v \in Variables : Reset(v)

RegistrySpec == InitRegistry /\ [][NextRegistry]_vars

(***************************************************************************)
(* The client: Connect, and a streaming call whose chunks the handler's    *)
(* grpcStreamWriter sends and receiveFileChunk drains into a sink.         *)
(***************************************************************************)

\* Server.Ping (and Agent.Ping): the reply is "pong", whatever the state.
Ping == "pong"

\* Mutant: Connect does not look at the reply.
AnyReply(reply) == TRUE

\* Connect: repl.Message != "pong" is an error.
PongExpected(reply) == reply = "pong"

\* Client.Connect: grpc.Dial, then Ping. The peer is this service, or some
\* other endpoint whose reply is not ours; the call itself may fail.
Connect ==
    /\ conn.state = "new"
    /\ \E dialed \in BOOLEAN, peer \in {"service", "other"},
          delivered \in BOOLEAN :
        LET reply == IF peer = "service" THEN Ping ELSE "hello" IN
        conn' = IF ~dialed
                THEN [state |-> "DialFailed", peer |-> peer, reply |-> "none"]
                ELSE IF ~delivered
                THEN [state |-> "PingFailed", peer |-> peer, reply |-> "none"]
                ELSE IF ~PongExpected(reply)
                THEN [state |-> "UnknownError", peer |-> peer,
                      reply |-> reply]
                ELSE [state |-> "OK", peer |-> peer, reply |-> reply]
    /\ UNCHANGED <<impl, handlerVars, taskVars, streamVars, capVars,
                   profileRunning, cacheVars, registryVars, stopVars,
                   lookupVars, unaryVars, kept, crashed, revision, stream,
                   writer, err, agentVars,
                   setupVars>>

\* A streaming call (LookupProfile, NonLookupProfile, Download*,
\* BinaryDump): the handler has data to write; the client enters
\* receiveFileChunk.
OpenStream ==
    /\ conn.state = "OK"
    /\ stream.status = "none"
    /\ \E b \in Payloads :
        stream' = [status |-> "open", data |-> b, sent |-> 0, wire |-> <<>>,
                   got |-> 0]
    /\ err' = "pending"
    /\ UNCHANGED <<impl, handlerVars, taskVars, streamVars, capVars,
                   profileRunning, cacheVars, registryVars, stopVars,
                   lookupVars, unaryVars, kept, crashed, revision, conn,
                   writer, agentVars,
                   setupVars>>

\* Mutant: the message overtakes the ones still on their way.
SendOutOfOrder ==
    /\ stream.status = "open"
    /\ stream.sent < Len(stream.data)
    /\ stream' = [stream EXCEPT
                    !.wire = <<(<<stream.data[stream.sent + 1]>>)>> \o @,
                    !.sent = @ + 1]
    /\ UNCHANGED <<impl, handlerVars, taskVars, streamVars, capVars,
                   profileRunning, cacheVars, registryVars, stopVars,
                   lookupVars, unaryVars, kept, crashed, revision, conn,
                   writer, err, agentVars, setupVars>>

\* grpcStreamWriter.Write, one turn of its loop: Send of a FileChunk holding
\* the next byte alone.
Send ==
    /\ stream.status = "open"
    /\ stream.sent < Len(stream.data)
    /\ stream' = [stream EXCEPT
                    !.wire = Append(@, <<stream.data[stream.sent + 1]>>),
                    !.sent = @ + 1]
    /\ UNCHANGED <<impl, handlerVars, taskVars, streamVars, capVars,
                   profileRunning, cacheVars, registryVars, stopVars,
                   lookupVars, unaryVars, kept, crashed, revision, conn,
                   writer, err, agentVars,
                   setupVars>>

\* The handler returns nil after its last Send: the stream ends normally.
HandlerReturn ==
    /\ stream.status = "open"
    /\ stream.sent = Len(stream.data)
    /\ stream' = [stream EXCEPT !.status = "closed"]
    /\ UNCHANGED <<impl, handlerVars, taskVars, streamVars, capVars,
                   profileRunning, cacheVars, registryVars, stopVars,
                   lookupVars, unaryVars, kept, crashed, revision, conn,
                   writer, err, agentVars,
                   setupVars>>

\* The stream fails (connection lost, call cancelled, handler error): Send
\* and Recv report an error from now on; a chunk in flight may still arrive
\* before Recv reports it.
StreamFail ==
    /\ stream.status = "open"
    /\ stream' = [stream EXCEPT !.status = "failed"]
    /\ UNCHANGED <<impl, handlerVars, taskVars, streamVars, capVars,
                   profileRunning, cacheVars, registryVars, stopVars,
                   lookupVars, unaryVars, kept, crashed, revision, conn,
                   writer, err, agentVars,
                   setupVars>>

\* Mutant: the receiver puts the bytes of a chunk in front of the sink.
SinkWriteFront(w, content) == content \o w

\* Mutant: the receiver writes the first byte of a chunk only.
SinkWriteFirstByte(w, content) ==
    IF content = <<>> THEN w ELSE Append(w, content[1])

\* writer.Write(fc.Content): the bytes of the chunk are appended to the sink.
SinkWrite(w, content) == w \o content

\* receiveFileChunk, one turn of its loop with a chunk received: the chunk
\* is written to the sink, and an error of the sink is returned.
RecvChunk ==
    /\ err = "pending"
    /\ stream.wire # <<>>
    /\ stream' = [stream EXCEPT !.wire = Tail(@), !.got = @ + 1]
    /\ \E ok \in BOOLEAN :
        IF ok
        THEN /\ writer' = SinkWrite(writer, Head(stream.wire))
             /\ UNCHANGED err
        ELSE /\ err' = "SinkError"
             /\ UNCHANGED writer
    /\ UNCHANGED <<impl, handlerVars, taskVars, streamVars, capVars,
                   profileRunning, cacheVars, registryVars, stopVars,
                   lookupVars, unaryVars, kept, crashed, revision, conn,
                   agentVars,
                   setupVars>>

\* Mutant: every revision clears err at the end of the stream.
AlwaysNil(rev) == "nil"

\* receiveFileChunk at err == io.EOF: src/client.go line 17 sets err = nil
\* and breaks; the other two revisions break with err still io.EOF, which
\* the final return hands to the caller.
AtEOF(rev) == IF rev = "client.go:17" THEN "nil" ELSE "EOF"

\* receiveFileChunk, Recv reporting the normal end of the stream.
RecvEOF ==
    /\ err = "pending"
    /\ stream.wire = <<>>
    /\ stream.status = "closed"
    /\ err' = AtEOF(revision)
    /\ UNCHANGED <<impl, handlerVars, taskVars, streamVars, capVars,
                   profileRunning, cacheVars, registryVars, stopVars,
                   lookupVars, unaryVars, kept, crashed, revision, conn,
                   stream, writer, agentVars,
                   setupVars>>

\* Mutant: the receiver empties the sink when the stream fails.
Retracted(w) == <<>>

\* receiveFileChunk at any other error of Recv: "return", with the sink as
\* it is.
SinkOnError(w) == w

\* receiveFileChunk, Recv reporting a failure of the stream.
RecvError ==
    /\ err = "pending"
    /\ stream.status = "failed"
    /\ err' = "StreamError"
    /\ writer' = SinkOnError(writer)
    /\ UNCHANGED <<impl, handlerVars, taskVars, streamVars, capVars,
                   profileRunning, cacheVars, registryVars, stopVars,
                   lookupVars, unaryVars, kept, crashed, revision, conn,
                   stream, agentVars,
                   setupVars>>

\* The agent's Set: the reply carries the previous value for MemProfileRate
\* and MutexProfileFraction, and stays -1 for CPUProfileRate and
\* BlockProfileRate, whose runtime setters return nothing.
AgentSet(v, rate) ==
    /\ impl = "agent"
    /\ conn.state = "OK"
    /\ conn.peer = "service"
    /\ agentRate' = [agentRate EXCEPT ![v] = rate]
    /\ lastSet' = [variable |-> v, rate |-> rate, was |-> agentRate[v],
                   value |-> IF v \in {"MemProfileRate",
                                       "MutexProfileFraction"}
                             THEN agentRate[v] ELSE -1]
    /\ UNCHANGED <<impl, handlerVars, taskVars, streamVars, capVars,
                   profileRunning, cacheVars, registryVars, stopVars,
                   lookupVars, unaryVars, kept, crashed, clientVars,
                   setupVars>>

InitClient ==
    /\ InitWith(RuntimeDefault)
    /\ revision \in Revisions
    /\ agentRate \in [AgentVariables -> Rates]

NextClient ==
    \/ Connect
    \/ OpenStream
    \/ Send
    \/ HandlerReturn
    \/ StreamFail
    \/ RecvChunk
    \/ RecvEOF
    \/ RecvError
    \/ \E v \in AgentVariables, rate \in Rates : AgentSet(v, rate)

ClientSpec == InitClient /\ [][NextClient]_vars

\* The server with LookupProfile handlers running at the same time: gRPC
\* serves every request in a goroutine of its own, and the handlers take no
\* lock.
NextConcurrent ==
    /\ Alive
    /\ \/ \E r \in Reqs : LookupProfile(r)
       \/ \E r \in Reqs : LookupMerge(r)
       \/ \E r \in Reqs : LookupStore(r)

ConcurrentSpec == InitCache /\ [][NextConcurrent]_vars

(***************************************************************************)
(* Properties.                                                             *)
(***************************************************************************)

\* The session of request r has ended: the server's goroutine has finished,
\* the agent's handler (which stops by itself) has returned.
SessionEnded(r) ==
    started[r] /\ (IF impl = "server" THEN bg[r] = "done" ELSE pc[r] = "done")

\* C1: a session whose startFunc succeeded invokes stopFunc exactly once,
\* whether the timer, the caller's cancellation or both end its wait: never
\* twice, never without a successful start, and once by the time it ends.
StopExactlyOnce ==
    \A r \in Reqs :
        /\ stopCalls[r] <= 1
        /\ stopCalls[r] = 1 => started[r]
        /\ SessionEnded(r) => stopCalls[r] = 1

\* C1 witness: a goroutine that has just stopped with both the deadline
\* passed and the caller's context cancelled.
StopExactlyOnceWitness ==
    \E r \in Reqs :
        /\ bg[r] = "stopped"
        /\ timer[r] = "fired"
        /\ ctx[r] = "cancelled"
        /\ stopCalls[r] = 1

StartStep(r) == pc[r] = "run" /\ pc'[r] # "run"

\* C3: a collectProfile(T) that calls startFunc while a collection of T is
\* active fails with the start error, and that step writes nothing into any
\* sink, invokes no stop and leaves the running collection, its goroutine
\* and its timer as they were.
SecondStartRejected ==
    [][\A r \in Reqs :
        (StartStep(r) /\ active[arg[r].type]) =>
            /\ result'[r] = "StartFailed"
            /\ pc'[r] = "done"
            /\ UNCHANGED <<written, sent, stopCalls, bg, timer, active, owner>>]_vars

\* C3 witness: a request rejected with the start error while the session
\* that owns the collection of the same type is still waiting to stop it.
SecondStartRejectedWitness ==
    \E r, q \in Reqs :
        /\ r # q
        /\ result[r] = "StartFailed"
        /\ arg[q].type = arg[r].type
        /\ active[arg[q].type] /\ owner[arg[q].type] = q
        /\ bg[q] = "waiting"
        /\ stopCalls[q] = 0

\* A live session: its startFunc succeeded and it has not yet made its stop
\* invocation.
Live(r) == started[r] /\ stopCalls[r] = 0

\* C4: for each duration type at most one session is live, in every
\* reachable state.
AtMostOneLiveSession ==
    \A t \in DurTypes :
        Cardinality({r \in Reqs : Live(r) /\ arg[r].type = t}) <= 1

\* The collection r started has been ended by someone other than r's session
\* (StopNonLookupProfile), r not having made its own stop invocation yet.
EndedFromOutside(r) == Live(r) /\ owner[arg[r].type] # r

\* C5: a stopCollection that ends the collection of a running session goes
\* through the session's own stop path: it raises the signal the session
\* waits on, so a handler blocked on the session is released by that stop
\* and not by the timer that fires later.
ExplicitStopSignalsSession ==
    \A r \in Reqs :
        (impl = "server" /\ bg[r] = "waiting" /\ EndedFromOutside(r)) =>
            TimeoutCtxDone(r)

\* A StopNonLookupProfile request is served in this step.
StopStep == nStops' # nStops

StartErrorReturned ==
    /\ [][\A r \in Reqs :
            (StartStep(r) /\ CapBusy(arg[r].type)) =>
                /\ result'[r] = "StartFailed"
                /\ UNCHANGED <<cacheVars, profileRunning>>]_vars
    /\ [](\A r \in Reqs :
            result[r] = "StartFailed" =>
                /\ pc[r] = "done"
                /\ ~started[r]
                /\ bg[r] = "none" /\ timer[r] = "none"
                /\ stopCalls[r] = 0
                /\ written[r] = 0 /\ sent[r] = 0
                /\ prof[r] = NoProfile)

\* C7 witness: a keep request rejected with the start error while the cache
\* already holds a profile of its type.
StartErrorReturnedWitness ==
    \E r \in Reqs :
        /\ result[r] = "StartFailed"
        /\ arg[r].keep
        /\ nonLookupProfile.m[arg[r].type] # NoProfile

\* The handler of r is past runNonLookup.
PastRun(r) == pc[r] \in {"ran", "merge", "store", "done"}

\* C8: with waitForCompletion set (and always in the agent) the handler gets
\* past runNonLookup, and so returns, only after the session has invoked the
\* stop capability and its goroutine has finished.
WaitingHandlerReturnsAfterStop ==
    \A r \in Reqs :
        (started[r] /\ arg[r].wait /\ PastRun(r)) =>
            /\ stopCalls[r] = 1
            /\ impl = "server" => bg[r] = "done"

\* C8 witness: a waiting server handler that has returned nil after its
\* goroutine stopped the collection.
WaitingHandlerReturnsAfterStopWitness ==
    \E r \in Reqs :
        /\ impl = "server"
        /\ arg[r].wait
        /\ started[r]
        /\ pc[r] = "done" /\ result[r] = "OK"
        /\ bg[r] = "done"

\* C9: with waitForCompletion unset the collection outlives the handler:
\* the session stops it only once the requested duration has elapsed or an
\* explicit stop was issued (a cancellation by the caller is granted too),
\* never because the handler returned.
CollectionOutlivesHandler ==
    \A r \in Reqs :
        (impl = "server" /\ started[r] /\ ~arg[r].wait /\ bg[r] = "stopped") =>
            \/ timer[r] = "fired"
            \/ nStops > 0
            \/ ctx[r] = "cancelled"

\* C10: a failed write to the stream sink of a running collection aborts
\* the session and is returned to the caller of collectProfile.
SinkFailureReturned ==
    \A r \in Reqs :
        (impl = "server" /\ started[r] /\ arg[r].wait /\ ~arg[r].keep
            /\ pc[r] = "done" /\ sent[r] < written[r]) =>
            result[r] = "SendFailed"

(***************************************************************************)
(* Properties of the profile cache (CacheSpec).                            *)
(***************************************************************************)

\* The cached entry of a type in either map; NoProfile when there is none.
Cached(t) ==
    IF t \in DurTypes THEN nonLookupProfile.m[t] ELSE lookupProfile.m[t]

\* The map that holds the entries of a type is nil.
MapIsNil(t) ==
    IF t \in DurTypes THEN nonLookupProfile.isNil ELSE lookupProfile.isNil

\* A keep handler is between its merge and its assignment to the map.
Storing(t) == \E r \in Reqs : pc[r] \in {"store", "lstore"} /\ arg[r].type = t

\* C11: a keep-collection of P for T whose P is compatible with the cached
\* entry (or finds none) stores P when nothing is cached and otherwise the
\* merge of the cached entry and P, of size size(C) + size(P); and once the
\* handler has returned, the cached entry of T holds the sum of the payloads
\* kept for T since the cache was last cleared.
PutInsertsOrMerges ==
    /\ \A t \in DurTypes \cup LookupTypes :
           (Alive /\ ~Storing(t)) => Cached(t).size = kept[t]
    /\ \A r \in Reqs :
           (pc[r] \in {"store", "lstore"} /\ ~MapIsNil(arg[r].type)) =>
               prof[r].size = kept[arg[r].type]

\* Two keep-collections of one type have been merged into one entry.
PutInsertsOrMergesWitness ==
    \E t \in DurTypes \cup LookupTypes :
        /\ Cached(t).size = MaxReq
        /\ kept[t] = MaxReq
        /\ \A r \in Reqs : pc[r] = "done" /\ result[r] = "OK"
                            /\ arg[r].type = t

\* A keep handler has found the cached entry of its type incompatible with
\* its new profile and has returned.
MergeRefused(r) == pc[r] = "done" /\ result[r] = "MergeFailed"

\* C12: when a keep-collection for T has met a cached entry incompatible
\* with its profile P2 and has returned, and no request was served after it
\* (nor any clear, download or registry request at all), the store holds
\* exactly {T: P2}: P2 for T and no entry for any other type.
IncompatibleClearsAndReplaces ==
    \A r \in Reqs :
        (/\ MergeRefused(r)
         /\ nOps = 0
         /\ \A q \in Reqs : q > r => pc[q] = "idle")
            => /\ arg[r].type \in LookupTypes =>
                      Cached(arg[r].type) = ParseBytes(snap[r])
               /\ arg[r].type \in DurTypes =>
                      Cached(arg[r].type).size = written[r]
               /\ \A t \in (DurTypes \cup LookupTypes) \ {arg[r].type} :
                      Cached(t) = NoProfile

\* C13: a keep-collection whose profile is incompatible with the cached entry
\* completes successfully; the merge failure is not returned to the caller.
MergeFailureNotReturned ==
    \A r \in Reqs : pc[r] = "done" => result[r] # "MergeFailed"

IsDownload(reply) == reply.op \in {"downloadLookup", "downloadNonLookup"}

\* C14: a download of a type for which a keep-collection has stored an entry
\* that no clear has removed does not end in NotFound: it streams the
\* serialized entry.
DownloadFindsCachedEntry ==
    (IsDownload(lastReply) /\ lastReply.held > 0)
        => /\ lastReply.code # "NotFound"
           /\ lastReply.code = "OK" => lastReply.chunks = lastReply.held

DownloadStep == nOps' # nOps /\ IsDownload(lastReply')

\* C15: a download of a type whose map holds no entry (none was ever put, or
\* the cache was cleared) ends in NotFound, sends no chunk and leaves both
\* maps as they were.
DownloadOfNothingIsNotFound ==
    [][(DownloadStep /\ lastReply'.held = 0)
          => /\ lastReply'.code = "NotFound"
             /\ lastReply'.chunks = 0
             /\ UNCHANGED cacheVars]_vars

\* A download of a type served after a clear that removed the entry a
\* keep-collection had stored for it.
DownloadOfNothingIsNotFoundWitness ==
    /\ IsDownload(lastReply)
    /\ lastReply.held = 0
    /\ lastReply.code = "NotFound"
    /\ lastReply.key \in DurTypes \cup LookupTypes
    /\ MapIsNil(lastReply.key)
    /\ \E r \in Reqs : /\ pc[r] = "done" /\ result[r] = "OK" /\ arg[r].keep
                        /\ arg[r].type = lastReply.key

ClearStep == nOps' # nOps /\ lastReply'.op = "clear"

\* C16: a clear succeeds, whatever the state it is served in; after it
\* neither map holds an entry for any lookup or duration type, so that a
\* download of any type finds nothing; the registry, the runtime parameters,
\* the sessions and the handlers in progress are as they were.
ClearEmptiesTheStore ==
    [][ClearStep
          => /\ lastReply'.code = "OK"
             /\ \A t \in DurTypes \cup LookupTypes :
                    Cached(t)' = NoProfile /\ ~Found(Cached(t))'
             /\ UNCHANGED <<registryVars, handlerVars, taskVars, streamVars,
                            capVars, profileRunning, crashed>>]_vars

\* A clear served while a session is running and an earlier keep-collection
\* has left an entry.
ClearEmptiesTheStoreWitness ==
    /\ lastReply.op = "clear"
    /\ lastReply.code = "OK"
    /\ \E r \in Reqs : bg[r] = "waiting" /\ active[arg[r].type]
    /\ \E q \in Reqs : /\ pc[q] = "done" /\ result[q] = "OK" /\ arg[q].keep
                        /\ arg[q].type \in DurTypes \cup LookupTypes
                        /\ MapIsNil(arg[q].type)

IsLookup(r) == pc[r] # "idle" /\ arg[r].type \in LookupTypes

\* C20: the bytes a snapshot request streams are the snapshot payload, in
\* order and from its first byte, whether keep is set or not; they fall
\* short of the payload only when a Send failed, and two requests with the
\* same payload and the same number of successful Sends, one with keep and
\* one without, stream the same bytes.
KeepStreamsTheSame ==
    /\ \A r \in Reqs :
           IsLookup(r) =>
               /\ out[r] = Streamed(snap[r], Len(out[r]))
               /\ result[r] # "SendFailed" => out[r] = snap[r]
    /\ \A r, q \in Reqs :
           (/\ IsLookup(r) /\ IsLookup(q)
            /\ arg[r].keep /\ ~arg[q].keep
            /\ snap[r] = snap[q]
            /\ Len(out[r]) = Len(out[q]))
               => out[r] = out[q]

\* The same payload of full length was streamed once with keep, and stored,
\* and once without.
KeepStreamsTheSameWitness ==
    \E r, q \in Reqs :
        /\ IsLookup(r) /\ IsLookup(q)
        /\ arg[r].keep /\ ~arg[q].keep
        /\ pc[r] = "done" /\ result[r] = "OK"
        /\ pc[q] = "done" /\ result[q] = "OK"
        /\ Len(snap[r]) = MaxLen
        /\ snap[r] = snap[q]
        /\ out[r] = snap[r] /\ out[q] = snap[q]

(***************************************************************************)
(* Properties of the variable registry (RegistrySpec).                     *)
(***************************************************************************)

\* initVariables was the last call served, and not as a repeated one.
Initialized == lastReply.op = "init" /\ lastReply.code # "AlreadyInitialized"

\* What initVariables is to capture for v: the runtime's setting, and 0 for
\* the block profile rate.
Default(v) == IF v = "BlockProfileRate" THEN 0 ELSE runtimeRate[v]

\* C17: once the registry has been initialized, a reset of v is served, and
\* leaves v's current value and the runtime parameter at the default
\* captured at initialization, whatever was set in between.
ResetRestoresDefault ==
    /\ Initialized => (Alive /\ ~NotInitialized)
    /\ (lastReply.op = "reset" /\ ~NotInitialized)
           => /\ lastReply.code = "OK"
              /\ VarMap[lastReply.key] = initVariable.m[lastReply.key]
              /\ runtimeRate[lastReply.key] = initVariable.m[lastReply.key]

\* C18: initialization writes the captured default of every variable, and
\* in every later state each captured default is that initial value.
DefaultCapturedOnce ==
    Initialized =>
        /\ ~initVariable.isNil
        /\ \A v \in Variables : initVariable.m[v] = Default(v)

RegistryStep == nOps' # nOps /\ lastReply'.op \in {"set", "reset"}

\* C19: a set or reset served before the registry is initialized is answered
\* FailedPrecondition and changes neither the registry nor a runtime
\* parameter.
UninitializedRegistryRefuses ==
    [][(RegistryStep /\ ~initializedVars)
          => /\ lastReply'.code = "FailedPrecondition"
             /\ UNCHANGED <<registryVars, crashed>>]_vars

\* A set and a reset were both refused on a registry never initialized.
UninitializedRegistryRefusesWitness ==
    /\ ~initializedVars
    /\ nOps >= 2
    /\ lastReply.op \in {"set", "reset"}
    /\ lastReply.code = "FailedPrecondition"
    /\ variable = NilVariable
    /\ initVariable = NilInitVariable

(***************************************************************************)
(* Properties of requests that name no profile.                            *)
(***************************************************************************)

\* The step in which the handler of a LookupProfile request r is entered.
\* (A NonLookupProfile request of an unknown type carries no valid duration.)
LookupCall(r) == pc[r] = "idle" /\ pc'[r] # "idle" /\ arg'[r].dur = "ok"
                 /\ arg'[r].type \in LookupReqTypes

\* C21: a snapshot request for a type the capability has no profile for
\* returns success, sends no chunk and leaves both maps as they were, with
\* keep as without.
NoProfileIsEmptySuccess ==
    [][\A r \in Reqs :
          (LookupCall(r) /\ arg'[r].type \notin LookupTypes)
              => /\ pc'[r] = "done"
                 /\ result'[r] = "OK"
                 /\ out'[r] = <<>>
                 /\ sent'[r] = 0
                 /\ UNCHANGED <<cacheVars, kept>>]_vars

\* Such a request was served with keep set, while the cache held an entry.
NoProfileIsEmptySuccessWitness ==
    \E r \in Reqs :
        /\ pc[r] = "done" /\ result[r] = "OK"
        /\ arg[r].type = "Unknown" /\ arg[r].dur = "ok" /\ arg[r].keep
        /\ out[r] = <<>>
        /\ \E q \in Reqs : /\ q < r
                            /\ arg[q].type \in LookupTypes
                            /\ Cached(arg[q].type) # NoProfile

\* The step in which the handler of a NonLookupProfile request r of a type
\* that is neither CPU nor Trace is entered.
UnknownCollectCall(r) ==
    /\ pc[r] = "idle" /\ pc'[r] # "idle"
    /\ arg'[r].type = "Unknown" /\ arg'[r].dur = "bad"

\* C22: a collect request and a stop request of a type outside {CPU, Trace}
\* are answered NotFound "unknown profile type"; no startFunc or stopFunc is
\* called, no chunk is sent, and the cache, the sessions and the other
\* handlers are as they were.
UnknownTypeRefused ==
    [][/\ \A r \in Reqs :
             UnknownCollectCall(r)
                 => /\ pc'[r] = "done"
                    /\ result'[r] = "NotFound"
                    /\ UNCHANGED <<taskVars, streamVars, capVars, cacheVars,
                                   profileRunning, stopVars>>
       /\ (StopStep /\ stopResp'.type \notin DurTypes)
             => /\ stopResp'.code = "NotFound"
                /\ UNCHANGED <<handlerVars, taskVars, streamVars, capVars,
                               cacheVars, profileRunning>>]_vars

\* Both requests were refused while a session was collecting.
UnknownTypeRefusedWitness ==
    /\ stopResp = [type |-> "Unknown", code |-> "NotFound"]
    /\ \E r, q \in Reqs :
          /\ q < r
          /\ arg[r].type = "Unknown" /\ pc[r] = "done"
          /\ result[r] = "NotFound"
          /\ started[q] /\ stopCalls[q] = 0 /\ active[arg[q].type]

(***************************************************************************)
(* Properties of the chunked transport and of the client (ClientSpec).     *)
(***************************************************************************)

\* Recv has reported the normal end of the stream to receiveFileChunk.
EndSeen == err \in {"nil", "EOF"}

\* C23: with the receiver of src/client.go line 17, once the bytes B that
\* the sender wrote have been drained to the normal end of the stream, the
\* sink holds exactly B and the receiver has returned nil.
RoundTrip ==
    (revision = "client.go:17" /\ EndSeen)
        => /\ writer = stream.data
           /\ err = "nil"

\* A payload of full length with two different bytes made the trip.
RoundTripWitness ==
    /\ revision = "client.go:17"
    /\ err = "nil"
    /\ Len(stream.data) = MaxLen
    /\ stream.data[1] # stream.data[MaxLen]
    /\ writer = stream.data

\* C24: in every revision of receiveFileChunk, the normal end of the stream
\* makes the receiver return nil.
NormalEndIsSuccess == EndSeen => err = "nil"

\* C25: when Recv reports a failure after k chunks were received, the
\* receiver returns that error with the sink holding those k chunks in
\* arrival order; and a receiver that has returned writes nothing more.
FailureKeepsWhatArrived ==
    [][/\ err' = "StreamError" =>
              writer' = SubSeq(stream'.data, 1, stream'.got)
       /\ err \notin {"none", "pending"} => UNCHANGED <<writer, err>>]_vars

\* The stream failed with one chunk received and another never received.
FailureKeepsWhatArrivedWitness ==
    /\ err = "StreamError"
    /\ stream.got = 1
    /\ Len(writer) = 1
    /\ Len(stream.data) = MaxLen
    /\ revision # "client.go:17"

\* C26: Connect succeeds only when the ping was answered, and answered
\* "pong"; any other reply and any error make it fail; and the service
\* answers "pong" whatever its state.
ConnectNeedsPong ==
    /\ conn.state = "OK" => conn.reply = "pong"
    /\ (conn.state # "new" /\ conn.reply # "pong") => conn.state # "OK"
    /\ (conn.peer = "service" /\ conn.reply # "none") => conn.reply = "pong"
    /\ Ping = "pong"

\* A peer that answered something else was refused.
ConnectNeedsPongWitness ==
    /\ conn.state = "UnknownError"
    /\ conn.peer = "other"
    /\ conn.reply \notin {"none", "pong"}

\* C29: the value the agent's Set returns is the value the variable had
\* just before the call, for each of the four variables.
SetReturnsPrevious ==
    lastSet.variable # "none" => lastSet.value = lastSet.was

(***************************************************************************)
(* Properties of the cache under concurrent handlers, and its keys.        *)
(***************************************************************************)

\* The handler of r stored the profile of its snapshot for a lookup type.
KeptSnapshot(r) ==
    /\ pc[r] = "done" /\ result[r] = "OK" /\ arg[r].keep
    /\ arg[r].type \in LookupTypes

\* C27: when two keep-collections of one type have both completed
\* successfully, the cached entry of the type is what the two puts give in
\* one order or the other: the merge of both profiles.
NoLostUpdate ==
    \A r, q \in Reqs :
        (r # q /\ KeptSnapshot(r) /\ KeptSnapshot(q) /\ arg[r].type = arg[q].type)
            => LET p1 == ParseBytes(snap[r])
                   p2 == ParseBytes(snap[q])
               IN  /\ Compatible(p1, p2)
                   /\ Cached(arg[r].type) \in {Merge(p1, p2), Merge(p2, p1)}

\* A step of the cache update of r's keep-collection, of either family.
PutStep(r) ==
    /\ pc[r] \in {"merge", "store", "lmerge", "lstore"}
    /\ pc'[r] # pc[r]

\* C28: a step of the cache update of a keep-collection for T changes the
\* entry of no other type and leaves the map of the other family alone; the
\* only profiles it merges are its own and the entry cached for T.
PutTouchesOwnTypeOnly ==
    [][\A r \in Reqs :
          PutStep(r)
              => /\ \A t \in (DurTypes \cup LookupTypes) \ {arg[r].type} :
                        Cached(t)' = Cached(t)
                 /\ arg[r].type \in LookupTypes =>
                        nonLookupProfile' = nonLookupProfile
                 /\ arg[r].type \in DurTypes =>
                        lookupProfile' = lookupProfile
                 /\ prof'[r] \in {prof[r], NoProfile,
                                   Merge(Cached(arg[r].type), prof[r])}]_vars

\* A duration profile and a lookup profile are cached side by side.
PutTouchesOwnTypeOnlyWitness ==
    /\ \E t \in DurTypes : Cached(t) # NoProfile
    /\ \E t \in LookupTypes : Cached(t) # NoProfile
    /\ \A r \in Reqs : pc[r] = "done" /\ result[r] = "OK"

\* C30: a stop invocation made by session r stops r's own collection or
\* none: never the collection another session has started since.
StopsOwnCollectionOnly ==
    [][\A r \in Reqs :
          stopCalls'[r] > stopCalls[r]
              => owner[arg[r].type] \in {0, r}]_vars

(***************************************************************************)
(* The keep and non-keep branches of NonLookupProfile against the life of  *)
(* the collection they started.                                            *)
(***************************************************************************)

\* The capability is still collecting into the sink r's startFunc handed it.
Collecting(r) ==
    /\ arg[r].type \in DurTypes
    /\ active[arg[r].type]
    /\ owner[arg[r].type] = r

\* C31: in keep mode the handler has read the buffer (streamed and parsed
\* it, and gone on to the cache update) only after the collection into the
\* buffer was stopped, for both values of waitForCompletion.
KeepReadsAfterStop ==
    \A r \in Reqs :
        (BufferSink(r) /\ pc[r] \in {"merge", "store"}) => ~Collecting(r)

\* C32: in non-keep mode no Send is made on the stream of r once the handler
\* of r has returned: the profiler makes no Write into the stream sink then.
NoSendAfterReturn ==
    [][\A r \in Reqs :
          (impl = "server" /\ pc[r] = "done" /\ ~BufferSink(r))
              => written'[r] = written[r]]_vars

(***************************************************************************)
(* The order of streaming, parsing and caching in the keep branches.       *)
(***************************************************************************)

\* A step of r's handler before its cache update: up to and including the
\* streaming and the parsing of the payload.
BeforePut(r) ==
    /\ pc[r] \in {"idle", "run", "wgWait", "ran"}
    /\ pc'[r] # pc[r]
    /\ arg'[r].keep

\* The step streamed less than the payload it had to stream.
SendFellShort(r) ==
    IF arg'[r].type \in DurTypes
    THEN pc[r] = "ran" /\ sent'[r] < written[r]
    ELSE arg'[r].type \in LookupTypes /\ Len(out'[r]) < Len(snap'[r])

\* C33: in keep mode no step of the handler before the cache update changes
\* an entry of either map; a handler whose Send failed returns the send
\* error and one whose payload did not parse returns the parse error, both
\* without reaching the cache update, so the entries of all types are what
\* they were.
CacheWrittenLast ==
    [][\A r \in Reqs :
          BeforePut(r)
              => /\ cacheVars' = cacheVars
                 /\ SendFellShort(r)
                        => pc'[r] = "done" /\ result'[r] = "SendFailed"
                 /\ result'[r] \in {"SendFailed", "ParseFailed"}
                        => pc'[r] = "done" /\ prof'[r] = NoProfile
                 /\ pc'[r] \in {"merge", "lmerge"}
                        => /\ prof'[r] # NoProfile
                           /\ ~SendFellShort(r)]_vars

\* A keep request has failed to send or to parse while an entry was cached
\* for its type.
CacheWrittenLastWitness ==
    \E r \in Reqs :
        /\ arg[r].keep /\ pc[r] = "done"
        /\ result[r] \in {"SendFailed", "ParseFailed"}
        /\ Cached(arg[r].type) # NoProfile

(***************************************************************************)
(* ClearProfileCache against a keep-collection in progress.                *)
(***************************************************************************)

\* C34: whatever the point of a keep-collection at which a clear is served,
\* the service does not fault: no handler assigns into a map the clear has
\* made nil.
ClearNeverFaultsPut == ~crashed

(***************************************************************************)
(* The constructors and the option setters: NewServer, Server.SetOptions   *)
(* (and the agent's, which reads the same), NewClient and                  *)
(* Client.SetDialOptions.                                                  *)
(***************************************************************************)

\* Longest option list handed to a constructor or a setter.
MaxOptions == 2
\* Number of SetOptions frames the goroutine stack holds before the runtime
\* ends the process with a stack overflow.
MaxFrames == 3

\* A *ServerOption / *DialOption: the nil pointer, an option carrying a grpc
\* option, or an option carrying an error.
OptionKinds == {"nil", "option", "error"}
OptionLists == UNION {[1..n -> OptionKinds] : n \in 0..MaxOptions}

\* A call of SetOptions / SetDialOptions: the range loop is at its first
\* option and the named result err is nil.
Frame(fn, opts) == [fn |-> fn, options |-> opts, i |-> 1, err |-> "nil"]

\* SetOption / SetDialOption: nil for a nil option, the option's error when
\* it carries one, and otherwise nil with the option appended.
OptionError(option) == IF option = "error" THEN "OptionError" ELSE "nil"
Appended(list, option) ==
    IF option = "option" THEN Append(list, option) ELSE list

\* client = &Client{}: the first statement of NewClient in src/client.go line
\* 268; the later revisions leave the named result client nil.
Allocates(rev) == rev = "client.go:17"

\* What the caller of the option setter does with the error e it returned.
AfterOptions(fn, e) ==
    IF e # "nil"
    THEN [fn |-> fn, at |-> "returned", err |-> e]
    ELSE IF fn = "NewServer"
    THEN [fn |-> fn, at |-> "initVariables", err |-> "pending"]
    ELSE IF fn = "NewClient"
    THEN [fn |-> fn, at |-> "Connect", err |-> "pending"]
    ELSE [fn |-> fn, at |-> "returned", err |-> "nil"]

\* The variables no constructor or setter acts on by itself.
builtVars == <<impl, handlerVars, taskVars, streamVars, capVars,
               profileRunning, cacheVars, registryVars, stopVars, lookupVars,
               unaryVars, kept, clientVars, agentVars>>

\* NewServer(options...): server = &Server{}; err = server.SetOptions(...).
NewServer(opts) ==
    /\ ctor = NoCtor
    /\ impl = "server"
    /\ ctor' = [fn |-> "NewServer", at |-> "options", err |-> "pending"]
    /\ options' = opts
    /\ frames' = <<Frame("SetOptions", opts)>>
    /\ UNCHANGED <<applied, crashed, builtVars>>

\* server.SetOptions(options...) / agent.SetOptions(options...) called on
\* a value of its own.
CallSetOptions(opts) ==
    /\ ctor = NoCtor
    /\ ctor' = [fn |-> "SetOptions", at |-> "options", err |-> "pending"]
    /\ options' = opts
    /\ frames' = <<Frame("SetOptions", opts)>>
    /\ UNCHANGED <<applied, crashed, builtVars>>

\* client.SetDialOptions(options...) called on a client of its own.
CallSetDialOptions(opts) ==
    /\ ctor = NoCtor
    /\ ctor' = [fn |-> "SetDialOptions", at |-> "options", err |-> "pending"]
    /\ options' = opts
    /\ frames' = <<Frame("SetDialOptions", opts)>>
    /\ UNCHANGED <<applied, crashed, builtVars>>

\* NewClient(ctx, serverAddress, options...): the default insecure option is
\* set on client, which is nil unless the revision allocates it, and
\* SetDialOption's append to client.dialOptions dereferences it; then
\* err = client.SetDialOptions(options...).
NewClient(opts) ==
    /\ ctor = NoCtor
    /\ options' = opts
    /\ IF Allocates(revision)
       THEN /\ ctor' = [fn |-> "NewClient", at |-> "options", err |-> "pending"]
            /\ applied' = Appended(applied, "option")
            /\ frames' = <<Frame("SetDialOptions", opts)>>
            /\ UNCHANGED crashed
       ELSE /\ ctor' = [fn |-> "NewClient", at |-> "default", err |-> "pending"]
            /\ crashed' = TRUE
            /\ UNCHANGED <<applied, frames>>
    /\ UNCHANGED builtVars

\* The frame on top of the stack returns e: to the caller of the setter, or
\* to the frame below, whose loop takes it as the err of its call.
FrameReturn(e) ==
    LET d == Len(frames) IN
    IF d = 1
    THEN /\ frames' = <<>>
         /\ ctor' = AfterOptions(ctor.fn, e)
    ELSE /\ frames' = [SubSeq(frames, 1, d - 1) EXCEPT
                          ![d - 1].err = e, ![d - 1].i = @ + 1]
         /\ UNCHANGED ctor

\* One turn of the loop of Server.SetOptions (Agent.SetOptions): return err
\* when it is set or the options are exhausted, and otherwise
\* err = server.SetOptions(option), a call of SetOptions itself with the one
\* option. A call for which the stack has no room ends the process.
SetOptions ==
    /\ frames # <<>>
    /\ LET d == Len(frames)
           f == frames[d] IN
        /\ f.fn = "SetOptions"
        /\ IF f.err # "nil" \/ f.i > Len(f.options)
           THEN /\ FrameReturn(f.err)
                /\ UNCHANGED crashed
           ELSE IF d = MaxFrames
           THEN /\ crashed' = TRUE
                /\ UNCHANGED <<frames, ctor>>
           ELSE /\ frames' = Append(frames,
                                    Frame("SetOptions", <<f.options[f.i]>>))
                /\ UNCHANGED <<ctor, crashed>>
    /\ UNCHANGED <<options, applied, builtVars>>

\* One turn of the loop of Client.SetDialOptions: return err when it is set
\* or the options are exhausted, and otherwise
\* err = client.SetDialOption(option).
SetDialOptions ==
    /\ frames # <<>>
    /\ LET d == Len(frames)
           f == frames[d] IN
        /\ f.fn = "SetDialOptions"
        /\ IF f.err # "nil" \/ f.i > Len(f.options)
           THEN /\ FrameReturn(f.err)
                /\ UNCHANGED applied
           ELSE /\ frames' = [frames EXCEPT
                                 ![d].err = OptionError(f.options[f.i]),
                                 ![d].i = @ + 1]
                /\ applied' = Appended(applied, f.options[f.i])
                /\ UNCHANGED ctor
    /\ UNCHANGED <<options, crashed, builtVars>>

\* NewServer: err = server.initVariables(); return.
NewServerInit ==
    /\ ctor.fn = "NewServer"
    /\ ctor.at = "initVariables"
    /\ lastReply.op # "init"
    /\ InitVariables

\* NewClient: err = client.Connect(ctx, serverAddress); return.
NewClientConnect ==
    /\ ctor.fn = "NewClient"
    /\ ctor.at = "Connect"
    /\ Connect

InitSetup ==
    /\ InitWith(RuntimeDefault)
    /\ revision \in Revisions
    /\ agentRate = [v \in AgentVariables |-> 0]

NextSetup ==
    /\ Alive
    /\ \/ \E opts \in OptionLists : NewServer(opts)
       \/ \E opts \in OptionLists : CallSetOptions(opts)
       \/ \E opts \in OptionLists : CallSetDialOptions(opts)
       \/ \E opts \in OptionLists : NewClient(opts)
       \/ SetOptions
       \/ SetDialOptions
       \/ NewServerInit
       \/ NewClientConnect

SetupSpec == InitSetup /\ [][NextSetup]_vars

\* C35: NewServer on a fresh process, called with no options, does not
\* fault, and once it has run initVariables the registry is initialized: the
\* flag is set and initVariable holds the captured defaults.
NewServerInitializes ==
    (ctor.fn = "NewServer" /\ options = <<>>)
        => /\ ~crashed
           /\ lastReply.op = "init"
                  => /\ lastReply.code = "OK"
                     /\ initializedVars
                     /\ ~initVariable.isNil

\* C36: SetOptions called with a finite list of options returns: it does
\* not run until the stack is exhausted.
SetOptionsTerminates ==
    ctor.fn = "SetOptions" => ~crashed

\* C38: NewClient does not fault, in any revision, whatever the options.
NewClientNeverFaults ==
    ctor.fn = "NewClient" => ~crashed

(***************************************************************************)
(* Server.profileRunning against the collections actually running.         *)
(***************************************************************************)

\* No handler is between setting the flag and calling startFunc, and no
\* goroutine between its stopFunc and clearing the flag.
FlagSettled ==
    \A r \in Reqs : pc[r] # "run" /\ bg[r] # "stopped"

\* C37: the server's profileRunning flag is true exactly when a collection
\* started through collectProfile is active: false after a failed start,
\* after the session's stop and after an explicit stopCollection.
ProfileRunningTracksCollection ==
    (impl = "server" /\ FlagSettled)
        => (profileRunning <=> \E t \in DurTypes : active[t])

(***************************************************************************)
(* The sender and the receiver of a chunked stream.                        *)
(***************************************************************************)

\* The messages of s that were sent and not yet received are the bytes of
\* the input that follow the received ones, one message per byte and in the
\* order of the input; n, the count of successful Sends, never exceeds the
\* input, and a stream that ended normally carried all of it.
InOrder(s) ==
    /\ s.sent \in 0..Len(s.data)
    /\ Len(s.wire) = s.sent - s.got
    /\ \A i \in 1..Len(s.wire) :
           s.wire[i] = SubSeq(s.data, s.got + i, s.got + i)
    /\ s.status = "closed" => s.sent = Len(s.data)

\* C39: grpcStreamWriter.Write emits the bytes of its input as an ordered
\* sequence of messages, each a contiguous slice of it; it makes no Send
\* after the first failed one, so that n counts the bytes sent, a strict
\* prefix on failure and the whole input on success.
SenderKeepsOrder ==
    [][/\ stream'.status # "none" => InOrder(stream')
       /\ stream.status = "failed" =>
              /\ stream'.sent = stream.sent
              /\ stream'.status = "failed"]_vars

\* The stream failed after the first byte of a two-byte input was sent: the
\* Write returns the error with n = 1.
SenderKeepsOrderWitness ==
    /\ stream.status = "failed"
    /\ Len(stream.data) = MaxLen
    /\ stream.data[1] # stream.data[MaxLen]
    /\ stream.sent = 1
    /\ stream.wire = <<SubSeq(stream.data, 1, 1)>>

(***************************************************************************)
(* receiveFileChunk on a stream of chunks of any sizes: its stream is an   *)
(* interface, and any sender may be behind it.                             *)
(***************************************************************************)

\* Number of messages a sender of this kind puts on one stream.
MaxChunks == 3

\* A sender that cuts its input where it likes: the next message carries the
\* next k bytes, none included.
SendChunk ==
    /\ stream.status = "open"
    /\ stream.got + Len(stream.wire) < MaxChunks
    /\ \E k \in 0..(Len(stream.data) - stream.sent) :
        stream' = [stream EXCEPT
                     !.wire = Append(@, SubSeq(stream.data, stream.sent + 1,
                                               stream.sent + k)),
                     !.sent = @ + k]
    /\ UNCHANGED <<impl, handlerVars, taskVars, streamVars, capVars,
                   profileRunning, cacheVars, registryVars, stopVars,
                   lookupVars, unaryVars, kept, crashed, revision, conn,
                   writer, err, agentVars, setupVars>>

\* The client is connected to the service.
InitReceiver ==
    /\ InitClient
    /\ impl = "server"
    /\ agentRate = [v \in AgentVariables |-> 0]

NextReceiver ==
    \/ Connect
    \/ OpenStream
    \/ SendChunk
    \/ HandlerReturn
    \/ StreamFail
    \/ RecvChunk
    \/ RecvEOF
    \/ RecvError

ReceiverSpec == InitReceiver /\ [][NextReceiver]_vars

\* C40: whatever the sizes of the chunks a payload is cut into, empty ones
\* included, the sink holds the payload when the receiver has seen the
\* normal end of the stream; and once a write to the sink has failed the
\* receiver has returned that error: it receives no further chunk and
\* writes nothing more.
GranularityIndependent ==
    [][/\ EndSeen' => writer' = stream'.data
       /\ err = "SinkError" =>
              /\ err' = "SinkError"
              /\ writer' = writer
              /\ stream'.got = stream.got]_vars

\* A two-byte payload arrived whole in three chunks, one of them empty, or
\* two of them empty and one holding both bytes.
GranularityIndependentWitness ==
    /\ EndSeen
    /\ Len(stream.data) = MaxLen
    /\ stream.data[1] # stream.data[MaxLen]
    /\ stream.got = MaxChunks
    /\ writer = stream.data
====
